---------------------------- MODULE Spec2Model ----------------------------
(***************************************************************************)
(* Al (src/al.py): the duplicate-detection core.  main() groups the files  *)
(* of a directory by size; find_duplicate_files refines the groups by the  *)
(* sha256 of the first byte_chunk bytes and then of the whole file, and    *)
(* fills the table organized_files with the files to keep (one bucket per  *)
(* extension) and the bucket "duplicate-files".                            *)
(*                                                                         *)
(* Representation.                                                         *)
(*  - A file name is the tuple of its '.'-separated segments:              *)
(*    "a.txt" is <<"a","txt">>, "README" is <<"README">>, "d." is          *)
(*    <<"d","">>, ".rc" is <<"","rc">>.  The string "" is <<"">>.          *)
(*  - A file's contents are a sequence of blocks of byte_chunk bytes, a    *)
(*    block being one of BlockValues.                                      *)
(*  - A dict (insertion ordered) is a sequence of entries                  *)
(*    [key |-> k, files |-> list].                                         *)
(*  - A sha256 digest is a collision-free numeric encoding of the bytes.   *)
(***************************************************************************)
EXTENDS Naturals, Sequences, FiniteSets

\* ------------------------------------------------------------------ bounds

\* The directory listing holds at most MaxFiles entries.
MaxFiles == 4

\* The values a block of byte_chunk bytes may take.
BlockValues == {0, 1}

\* The contents a file may have (zero, one or two blocks).
Contents == {<<>>, <<0>>, <<1>>, <<0, 0>>, <<0, 1>>, <<1, 0>>}

\* The names the directory may hold, in the order os.listdir() returns them.
NamePool ==
    << <<"a", "txt">>, <<"b", "duplicate">>, <<"README">>,
       <<"c", "tar", "txt">>, <<"d", "">>, <<"", "e", "txt">> >>

\* ------------------------------------------------------- program constants

byte_chunk == 1024

Min(a, b) == IF a <= b THEN a ELSE b

\* ------------------------------------------------------------- dict (list)

\* The index of key k in table t, 0 when absent.
Find(t, k) ==
    IF \E i \in 1..Len(t) : t[i].key = k
    THEN CHOOSE i \in 1..Len(t) : t[i].key = k
    ELSE 0

\* t[k].append(f) on a defaultdict(list).
TableAppend(t, k, f) ==
    IF Find(t, k) = 0
    THEN Append(t, [key |-> k, files |-> <<f>>])
    ELSE [t EXCEPT ![Find(t, k)].files = Append(@, f)]

\* Faulty variant of TableExtend: the last file of fs is left out.
TableExtend_DropLast(t, k, fs) ==
    IF Find(t, k) = 0
    THEN Append(t, [key |-> k, files |-> SubSeq(fs, 1, Len(fs) - 1)])
    ELSE [t EXCEPT ![Find(t, k)].files = @ \o SubSeq(fs, 1, Len(fs) - 1)]

\* t[k].extend(fs) on a defaultdict(list): the list under k, made empty
\* when absent, gets the files of fs at its end.
TableExtend(t, k, fs) ==
    IF Find(t, k) = 0
    THEN Append(t, [key |-> k, files |-> fs])
    ELSE [t EXCEPT ![Find(t, k)].files = @ \o fs]

\* The elements of a list.
Range(s) == {s[i] : i \in 1..Len(s)}

\* ------------------------------------------------------------ file system

\* os.path.getsize: the byte length of the contents.
getsize(content) == Len(content) * byte_chunk

\* file_object.read(n): the first n bytes, whole blocks of byte_chunk bytes.
read(content, n) == SubSeq(content, 1, Min(Len(content), n \div byte_chunk))

\* file_object.read(): all the bytes.
readall(content) == content

\* hashlib.sha256(bytes).hexdigest(): collision free on the modelled bytes.
RECURSIVE sha256(_)
sha256(bytes) ==
    IF bytes = <<>>
    THEN 0
    ELSE (Head(bytes) + 1) + (Cardinality(BlockValues) + 1) * sha256(Tail(bytes))

HashError == "Error encountered in get_hash()"
ReadError == "Unable to read current file"

\* get_hash(file_object, iteration): the digest returned, or the exception
\* raised.
get_hash(content, iteration) ==
    IF iteration = 0
    THEN [raised |-> FALSE, value |-> sha256(read(content, byte_chunk))]
    ELSE IF iteration = 1
         THEN [raised |-> FALSE, value |-> sha256(readall(content))]
         ELSE [raised |-> TRUE, value |-> HashError]

\* is_hidden_file(file): file.startswith(".").
is_hidden_file(file) == file[1] = "" /\ Len(file) > 1

\* Faulty variant of splitext: the ext starts at the first dot, not the last.
splitext_FirstDot(file) ==
    IF Len(file) >= 2 /\ file[1] # ""
    THEN <<SubSeq(file, 1, 1), <<"", file[2]>> >>
    ELSE <<file, <<"">> >>

\* os.path.splitext(file): <<root, ext>>; the ext starts at the last dot,
\* unless only dots come before it.
splitext(file) ==
    LET n == Len(file) IN
    IF n >= 2 /\ \E i \in 1..(n - 1) : file[i] # ""
    THEN <<SubSeq(file, 1, n - 1), <<"", file[n]>> >>
    ELSE <<file, <<"">> >>

\* The label of add_unique_file_to_table, line 77.
ExtensionLabel(file) ==
    LET file_extension == splitext(file)[2] IN
    IF file_extension # <<"">>
    THEN Tail(file_extension)[1] \o "-files"
    ELSE "no-extension-files"

\* add_unique_file_to_table(file, destination_table).
add_unique_file_to_table(file, dest) ==
    TableAppend(dest, ExtensionLabel(file), file)

DuplicateLabel == "duplicate-files"

\* ------------------------------------------------------------------ state

VARIABLES
    listing,            \* main: files_in_path, the result of os.listdir()
    disk,               \* the contents of each file of the listing
    source_table,       \* main: hashed_files, shared by every call
    destination_table,  \* main: organized_files, shared by every call
    stack,              \* the frames of find_duplicate_files, innermost last
    pc,                 \* where the innermost frame stands
    cursor,             \* the position of the loops of lines 118 and 83
    error,              \* the message of the exception that ended the run
    get_hash_calls,     \* history: <<file, iteration>> of every get_hash call
    unique_calls        \* history: the files given to add_unique_file_to_table

vars ==
    <<listing, disk, source_table, destination_table, stack, pc, cursor,
      error, get_hash_calls, unique_calls>>

\* The locals of the innermost call of find_duplicate_files.
Top == stack[Len(stack)]
iteration == Top.iteration
potentially_duplicate_files == Top.potentially_duplicate_files

\* A new frame: line 93.
Frame(it) == [iteration |-> it, potentially_duplicate_files |-> <<>>]

\* main, lines 181-187: group the non-hidden files of the listing by size.
RECURSIVE ScanDirectory(_, _, _)
ScanDirectory(files, d, hashed_files) ==
    IF files = <<>>
    THEN hashed_files
    ELSE ScanDirectory(
             Tail(files), d,
             IF ~is_hidden_file(Head(files))
             THEN TableAppend(hashed_files, getsize(d[Head(files)]), Head(files))
             ELSE hashed_files)

\* The listings: the names of NamePool at the positions of S, in order.
RECURSIVE Pick(_, _)
Pick(S, i) ==
    IF i > Len(NamePool)
    THEN <<>>
    ELSE (IF i \in S THEN <<NamePool[i]>> ELSE <<>>) \o Pick(S, i + 1)

Listings ==
    {Pick(S, 1) : S \in {T \in SUBSET (1..Len(NamePool)) : Cardinality(T) <= MaxFiles}}

\* main up to line 190: the call find_duplicate_files(hashed_files,
\* organized_files) with iteration = 0 is about to run.
Init ==
    /\ listing \in Listings
    /\ disk \in [Range(listing) -> Contents]
    /\ source_table = ScanDirectory(listing, disk, <<>>)
    /\ destination_table = <<>>
    /\ stack = <<Frame(0)>>
    /\ pc = "entry"
    /\ cursor = <<1, 1>>
    /\ error = ""
    /\ get_hash_calls = {}
    /\ unique_calls = {}

\* -------------------------------------------------- find_duplicate_files

\* Faulty variant of IsUnique: len(files) == 0 in place of len(files) == 1.
IsUnique_Empty(files) == Len(files) = 0

\* Line 105: the group is a file unique at this level.
IsUnique(files) == Len(files) = 1

\* Lines 103-106: the destination table after the unique files are added.
RECURSIVE AddUniqueFiles(_, _)
AddUniqueFiles(source, dest) ==
    IF source = <<>>
    THEN dest
    ELSE AddUniqueFiles(
             Tail(source),
             IF IsUnique(Head(source).files)
             THEN add_unique_file_to_table(Head(source).files[1], dest)
             ELSE dest)

\* Lines 103-109: the groups kept as potentially duplicate.
RECURSIVE CollectPotential(_, _)
CollectPotential(source, potential) ==
    IF source = <<>>
    THEN potential
    ELSE CollectPotential(
             Tail(source),
             IF IsUnique(Head(source).files)
             THEN potential
             ELSE TableExtend(potential, Head(source).key, Head(source).files))

\* The files given to add_unique_file_to_table by lines 103-106.
UniqueFilesOf(source) ==
    {source[i].files[1] : i \in {j \in 1..Len(source) : IsUnique(source[j].files)}}

\* Lines 98-99: the duplicates of one group are appended to "duplicate-files".
RECURSIVE AppendDuplicates(_, _)
AppendDuplicates(files, dest) ==
    IF files = <<>>
    THEN dest
    ELSE AppendDuplicates(Tail(files), TableAppend(dest, DuplicateLabel, Head(files)))

\* Faulty variant of Survivor: the last file of the group is kept.
Survivor_Last(files) == files[Len(files)]

\* Line 97: the file of a terminal group that is kept, list_of_files[0].
Survivor(files) == files[1]

\* Faulty variant of Duplicates: list_of_files[2:] in place of list_of_files[1:].
Duplicates_SkipOne(files) == SubSeq(files, 3, Len(files))

\* Line 98: the files of a terminal group that are duplicates,
\* list_of_files[1:].
Duplicates(files) == Tail(files)

\* Lines 96-99: the first file of every group is kept, the others are
\* duplicates.
RECURSIVE Dispose(_, _)
Dispose(source, dest) ==
    IF source = <<>>
    THEN dest
    ELSE Dispose(
             Tail(source),
             AppendDuplicates(
                 Duplicates(Head(source).files),
                 add_unique_file_to_table(Survivor(Head(source).files), dest)))

\* Faulty variant of IsTerminal: iteration == 3 in place of iteration == 2.
IsTerminal_Three(it) == it = 3

\* Line 95: the call is the terminal one.
IsTerminal(it) == it = 2

\* Lines 95-100: the terminal level.
Level2 ==
    /\ pc = "entry"
    /\ IsTerminal(iteration)
    /\ destination_table' = Dispose(source_table, destination_table)
    /\ unique_calls' =
           unique_calls \cup {Survivor(source_table[i].files) : i \in 1..Len(source_table)}
    /\ pc' = "return"
    /\ UNCHANGED <<listing, disk, source_table, stack, cursor, error, get_hash_calls>>

\* Lines 103-117: the unique files are classified, the other groups are kept
\* for rehashing; with none the call returns, else the source table is
\* cleared.
Classify ==
    /\ pc = "entry"
    /\ ~IsTerminal(iteration)
    /\ destination_table' = AddUniqueFiles(source_table, destination_table)
    /\ unique_calls' = unique_calls \cup UniqueFilesOf(source_table)
    /\ LET potential == CollectPotential(source_table, <<>>) IN
         /\ stack' = [stack EXCEPT ![Len(stack)].potentially_duplicate_files = potential]
         /\ IF potential = <<>>
            THEN pc' = "return" /\ UNCHANGED source_table
            ELSE pc' = "rehash" /\ source_table' = <<>>
    /\ cursor' = <<1, 1>>
    /\ UNCHANGED <<listing, disk, error, get_hash_calls>>

\* Faulty variant of RehashOver: the rehash stops after the first group.
RehashOver_FirstGroup(potential, cur) == cur[1] > 1

\* The loops of lines 118 and 83 are over once the cursor is past the last
\* group.
RehashOver(potential, cur) == cur[1] > Len(potential)

\* The cursor after the file at cur.
NextCursor(potential, cur) ==
    IF cur[2] < Len(potential[cur[1]].files)
    THEN <<cur[1], cur[2] + 1>>
    ELSE <<cur[1] + 1, 1>>

\* What line 85 and the read of get_hash may do: succeed, or raise OSError
\* at the open or at the read.
Outcomes == {"ok", "open fails", "read fails"}

\* Lines 83-89, one file, then lines 122-123 after the last one.  An OSError
\* becomes the exception of line 88; the exception of get_hash, raised before
\* any read, is no OSError and propagates as it is.
Rehash(outcome) ==
    /\ pc = "rehash"
    /\ LET file == potentially_duplicate_files[cursor[1]].files[cursor[2]]
           current_hash == get_hash(disk[file], iteration)
           next == NextCursor(potentially_duplicate_files, cursor)
       IN
         IF outcome = "open fails"
         THEN /\ error' = ReadError
              /\ pc' = "error"
              /\ stack' = <<>>
              /\ UNCHANGED <<source_table, cursor, get_hash_calls>>
         ELSE /\ get_hash_calls' = get_hash_calls \cup {<<file, iteration>>}
              /\ IF current_hash.raised \/ outcome = "read fails"
                 THEN /\ error' = IF current_hash.raised THEN current_hash.value ELSE ReadError
                      /\ pc' = "error"
                      /\ stack' = <<>>
                      /\ UNCHANGED <<source_table, cursor>>
                 ELSE /\ source_table' = TableAppend(source_table, current_hash.value, file)
                      /\ cursor' = next
                      /\ error' = error
                      /\ IF RehashOver(potentially_duplicate_files, next)
                         THEN /\ stack' = Append(
                                     [stack EXCEPT ![Len(stack)].iteration = @ + 1],
                                     Frame(iteration + 1))
                              /\ pc' = "entry"
                         ELSE UNCHANGED <<stack, pc>>
    /\ UNCHANGED <<listing, disk, destination_table, unique_calls>>

\* Lines 100, 113 and the end of the function: the innermost call returns;
\* its caller stands at line 123 and returns next.
Return ==
    /\ pc = "return"
    /\ stack' = SubSeq(stack, 1, Len(stack) - 1)
    /\ pc' = IF Len(stack) = 1 THEN "done" ELSE "return"
    /\ UNCHANGED <<listing, disk, source_table, destination_table, cursor, error,
                   get_hash_calls, unique_calls>>

Next ==
    \/ Level2
    \/ Classify
    \/ \E outcome \in Outcomes : Rehash(outcome)
    \/ Return

Spec == Init /\ [][Next]_vars

\* ----------------------------------------------------- notions of the claims

\* t[k] read without inserting: the list under k, empty when absent.
Bucket(t, k) == IF Find(t, k) = 0 THEN <<>> ELSE t[Find(t, k)].files

\* Every file held by a table, over all its lists.
TableFiles(t) == UNION {Range(t[i].files) : i \in 1..Len(t)}

\* The number of entries of all the lists of a table.
RECURSIVE TableCount(_)
TableCount(t) ==
    IF t = <<>> THEN 0 ELSE Len(Head(t).files) + TableCount(Tail(t))

\* The input of find_duplicate_files: the size-keyed Grouping main built.
InputGrouping == ScanDirectory(listing, disk, <<>>)
InputFiles == TableFiles(InputGrouping)

Done == pc = "done"
Failed == pc = "error"

\* The index of file f in the list fs.
PosIn(fs, f) == CHOOSE i \in 1..Len(fs) : fs[i] = f

\* The list of the table t that holds f.
GroupOf(t, f) == t[CHOOSE i \in 1..Len(t) : f \in Range(t[i].files)].files

\* The number of places of table t that hold f.
Occurrences(t, f) ==
    Cardinality({p \in UNION {{i} \X (1..Len(t[i].files)) : i \in 1..Len(t)} :
                    t[p[1]].files[p[2]] = f})

\* The first byte_chunk bytes and the whole contents, digested.
PartialDigest(f) == sha256(read(disk[f], byte_chunk))
FullDigest(f) == sha256(disk[f])

\* Level 0: f is alone in its size group among the files of I.
AloneBySize(I, f) == \A g \in I : Len(disk[g]) = Len(disk[f]) => g = f

\* Level 1: the files of I rehashed at level 0, those not alone by size; and
\* f is alone in its partial-digest group among the files L1.
Level1Of(I) == {f \in I : ~AloneBySize(I, f)}
AloneByPartial(L1, f) == \A g \in L1 : PartialDigest(g) = PartialDigest(f) => g = f

\* Level 2: the files of L1 rehashed at level 1, those not alone by partial
\* digest.
Level2Of(L1) == {f \in L1 : ~AloneByPartial(L1, f)}

Level1Files == Level1Of(InputFiles)
Level2Files == Level2Of(Level1Files)

\* f and g are in one input size group.
SameSize(f, g) == getsize(disk[f]) = getsize(disk[g])

\* The files of I with the contents of f.
SameContentIn(I, f) == {g \in I : disk[g] = disk[f]}
SameContent(f) == SameContentIn(InputFiles, f)

\* The terminal level has made its dispositions.
Level2Disposed ==
    /\ pc \in {"return", "done"}
    /\ \E c \in get_hash_calls : c[2] = 1

KeptIn(f) == f \in unique_calls /\ f \in Range(Bucket(destination_table, ExtensionLabel(f)))

\* ------------------------------------------------------------------ claims

\* C1 (conservation): when find_duplicate_files has returned normally, every
\* input file is held by exactly one place of the destination table, the
\* table holds no other file, and the number of its entries over all the
\* buckets, "duplicate-files" included, is the number of input files.
C1_Conservation ==
    Done =>
        LET I == InputFiles IN
        /\ \A f \in I : Occurrences(destination_table, f) = 1
        /\ TableFiles(destination_table) = I
        /\ TableCount(destination_table) = Cardinality(I)

\* C1 witness: a run returned with three files or more, some kept after a
\* rehash and some duplicate.
C1_Witness ==
    /\ Done
    /\ Cardinality(InputFiles) >= 3
    /\ Bucket(destination_table, DuplicateLabel) # <<>>
    /\ \E f \in unique_calls : <<f, 0>> \in get_hash_calls

\* C2 (duplicate symmetry): the files of one content reach the terminal level
\* in the same full-digest group, and once the run has returned exactly one of
\* them is classified unique, in the bucket of its extension, and every other
\* one is in "duplicate-files" and was not classified unique.
C2_DuplicateSymmetry ==
    (Done \/ (pc = "entry" /\ IsTerminal(iteration))) =>
        LET I == InputFiles IN
        \A f \in I :
            LET S == SameContentIn(I, f) IN
            Cardinality(S) >= 2 =>
                /\ (pc = "entry" /\ IsTerminal(iteration)) =>
                       /\ S \subseteq TableFiles(source_table)
                       /\ S \subseteq Range(GroupOf(source_table, f))
                /\ Done =>
                       /\ Cardinality({g \in S : KeptIn(g)}) = 1
                       /\ Cardinality({g \in S : g \in unique_calls}) = 1
                       /\ \A g \in S :
                              g \notin unique_calls =>
                                  g \in Range(Bucket(destination_table, DuplicateLabel))

\* C2 witness: a run returned with three files of one content.
C2_Witness ==
    /\ Done
    /\ \E f \in InputFiles :
           /\ Cardinality(SameContent(f)) >= 3
           /\ KeptIn(f)
           /\ Cardinality(Range(Bucket(destination_table, DuplicateLabel))
                              \cap SameContent(f)) = 2

\* The place of f in the input order: its index in its size group of the
\* input Grouping G.
InputPos(G, f) == PosIn(GroupOf(G, f), f)

\* C3 (first inserted wins): the files of a group of the source table that
\* come from one input size group stand in their input order; and once the
\* terminal level has made its dispositions, the file kept of every
\* full-digest group of several files is the first member of the group, which
\* is the member that comes first in the input order.
C3_FirstInsertedWins ==
    LET G == InputGrouping IN
    /\ pc \in {"entry", "rehash", "return", "done"} =>
           \A i \in 1..Len(source_table) :
               \A j, k \in 1..Len(source_table[i].files) :
                   LET f == source_table[i].files[j]
                       g == source_table[i].files[k]
                   IN (j < k /\ SameSize(f, g)) => InputPos(G, f) < InputPos(G, g)
    /\ Level2Disposed =>
           \A i \in 1..Len(source_table) :
               LET files == source_table[i].files IN
               Len(files) > 1 =>
                   /\ files[1] \in unique_calls
                   /\ \A j \in 2..Len(files) :
                          /\ files[j] \notin unique_calls
                          /\ SameSize(files[1], files[j])
                          /\ InputPos(G, files[1]) < InputPos(G, files[j])

\* C3 witness: the dispositions are made and a group of three files has kept
\* its first.
C3_Witness ==
    /\ Level2Disposed
    /\ \E i \in 1..Len(source_table) :
           /\ Len(source_table[i].files) >= 3
           /\ source_table[i].files[1] \in unique_calls

\* C4 (monotonic refinement): get_hash is never called on a file alone in its
\* size group, and the file is classified unique; the full-content hash
\* (iteration 1) is never computed for a file alone in its partial-digest
\* group, and the file is classified unique; every file hashed at a level was
\* in a group of several files at the level before.
C4_MonotonicRefinement ==
    LET I == InputFiles
        L1 == Level1Of(I)
        L2 == Level2Of(L1)
    IN
    /\ \A f \in I \ L1 :
           /\ \A c \in get_hash_calls : c[1] # f
           /\ Done => KeptIn(f)
    /\ \A f \in L1 \ L2 :
           /\ <<f, 1>> \notin get_hash_calls
           /\ Done => KeptIn(f)
    /\ \A c \in get_hash_calls :
           /\ c[2] = 0 => c[1] \in L1
           /\ c[2] = 1 => c[1] \in L2
           /\ c[2] \in {0, 1}

\* C4 witness: a run returned in which one file was alone in its size group,
\* another alone in its partial-digest group, and a third fully hashed.
C4_Witness ==
    /\ Done
    /\ \E f \in InputFiles \ Level1Files : KeptIn(f)
    /\ \E f \in Level1Files \ Level2Files : <<f, 0>> \in get_hash_calls /\ KeptIn(f)
    /\ \E c \in get_hash_calls : c[2] = 1

\* C5 (all or nothing), as claimed: when the error of a rehash pass
\* propagates, the destination table holds no entry added by the run.
C5_NoPartialClassification ==
    Failed => destination_table = <<>>

\* The levels of a run: the calls of find_duplicate_files are at most three,
\* with iteration 0, 1 and 2; the call with iteration 2 neither rehashes nor
\* calls itself; get_hash is only called with iteration 0 or 1 and its error
\* is never raised.
Levels ==
    /\ Len(stack) <= 3
    /\ \A i \in 1..Len(stack) : stack[i].iteration \in {0, 1, 2}
    /\ pc = "rehash" => iteration \in {0, 1}
    /\ \A c \in get_hash_calls : c[2] \in {0, 1}
    /\ error # HashError

\* The files the rehash pass has still to hash, from the cursor on.
RECURSIVE FilesFrom(_, _)
FilesFrom(potential, i) ==
    IF i > Len(potential) THEN 0 ELSE Len(potential[i].files) + FilesFrom(potential, i + 1)

Remaining == FilesFrom(potentially_duplicate_files, cursor[1]) - (cursor[2] - 1)

\* A bound on the steps a call entered with iteration it has still to take:
\* a rehash pass of at most every file listed and an entry per level to come,
\* the terminal dispositions, and the returns of at most three calls.
LevelRank(it) ==
    4 + (IF it >= 2 THEN 0 ELSE (2 - it) * (Len(listing) + 1))

\* A bound on the steps the run has still to take.
Rank ==
    IF pc = "entry" THEN LevelRank(iteration)
    ELSE IF pc = "rehash" THEN LevelRank(iteration + 1) + Remaining
    ELSE IF pc = "return" THEN Len(stack)
    ELSE 0

\* C6 (bounded termination): every run of find_duplicate_files started at
\* iteration 0 stays within the three levels (iteration 0, 1, 2; no rehash
\* and no call at iteration 2; get_hash called with 0 or 1 only, its error
\* never raised) and ends: every step takes the run strictly nearer to its
\* end, and a run that has neither returned nor raised can take a step.
C6_BoundedTermination ==
    /\ []Levels
    /\ [][Rank' < Rank]_vars
    /\ [](Done \/ Failed \/ ENABLED Next)

\* C6 witness: the call with iteration 2 has run and the run has returned.
C6_Witness ==
    /\ Done
    /\ Level2Disposed
    /\ Bucket(destination_table, DuplicateLabel) # <<>>

\* The label of the claim: the text after the final '.' of the name and
\* "-files", or "no-extension-files" for a name without '.'.
ClaimedLabel(file) ==
    IF Len(file) = 1 THEN "no-extension-files" ELSE file[Len(file)] \o "-files"

\* C7 (extension labelling): every file given to add_unique_file_to_table is
\* held once by the destination table, in the bucket of the claimed label,
\* and by no other bucket.
C7_ExtensionLabelling ==
    \A f \in unique_calls :
        /\ f \in Range(Bucket(destination_table, ClaimedLabel(f)))
        /\ \A i \in 1..Len(destination_table) :
               f \in Range(destination_table[i].files) =>
                   destination_table[i].key = ClaimedLabel(f)
        /\ Occurrences(destination_table, f) = 1

\* C7 witness: a name without extension, a name with two dots and a name
\* that ends with a dot were classified.
C7_Witness ==
    /\ <<"README">> \in Range(Bucket(destination_table, "no-extension-files"))
    /\ <<"c", "tar", "txt">> \in Range(Bucket(destination_table, "txt-files"))
    /\ <<"d", "">> \in Range(Bucket(destination_table, "-files"))
    /\ {<<"README">>, <<"c", "tar", "txt">>, <<"d", "">>} \subseteq unique_calls

\* C8 (the reserved bucket holds only duplicates), as claimed: once the run
\* has returned, every file of "duplicate-files" was not kept as unique and
\* has the contents of another file that was.
C8_OnlyDuplicates ==
    Done =>
        \A f \in Range(Bucket(destination_table, DuplicateLabel)) :
            /\ f \notin unique_calls
            /\ \E g \in SameContent(f) : g # f /\ g \in unique_calls

\* C9 (different sizes never share a group), as claimed: the files of a
\* group of the source table have one byte length, and every group a rehash
\* pass builds is inside one group of the level before.
C9_SizesNeverShareGroup ==
    /\ \A i \in 1..Len(source_table) :
           \A f, g \in Range(source_table[i].files) :
               getsize(disk[f]) = getsize(disk[g])
    /\ pc = "rehash" =>
           \A i \in 1..Len(source_table) :
               \E j \in 1..Len(potentially_duplicate_files) :
                   Range(source_table[i].files)
                       \subseteq Range(potentially_duplicate_files[j].files)

\* C10 (level sequencing): no full-content hash is computed before every file
\* of a size group of several files has its partial hash, and no file that
\* was fully hashed is disposed of before every file of a partial-digest
\* group of several files is fully hashed.
C10_LevelSequencing ==
    LET L1 == Level1Files
        L2 == Level2Of(L1)
    IN
    /\ (\E c \in get_hash_calls : c[2] = 1) =>
           \A f \in L1 : <<f, 0>> \in get_hash_calls
    /\ (\E f \in L2 : f \in TableFiles(destination_table)) =>
           \A f \in L2 : <<f, 1>> \in get_hash_calls

\* C10 witness: two size groups of two files were rehashed and the terminal
\* level has made its dispositions.
C10_Witness ==
    /\ Level2Disposed
    /\ Len(InputGrouping) = 2
    /\ Cardinality(Level1Files) = 4
    /\ Cardinality(Level2Files) >= 2

=============================================================================
